---- MODULE Spec2Model ----
(***************************************************************************)
(* State-machine model of the server2 backend: the Database class          *)
(* (user / user_api / api_usage_log tables behind one shared connection),  *)
(* the token helpers, the auth middleware and the user and admin routes.   *)
(* Every await on a database statement or on the upstream fetch is one     *)
(* atomic step; the synchronous code that follows a statement up to the    *)
(* next await belongs to the same step.  Requests occupy slots and         *)
(* interleave freely at their await points, as on the node event loop.     *)
(***************************************************************************)
EXTENDS Integers, FiniteSets, Bags, TLC

(***************************************************************************)
(* Bounds of the model and constants of the program.                       *)
(***************************************************************************)
NumSlots == 2          \* requests in one behaviour, all of which can be in flight together
DefaultLimit == 20     \* api_calls_limit written by every INSERT INTO user_api

Slots == 1..NumSlots

\* user_id values: those handed out by earlier runs plus room for new ones.
JohnId == 1
AdminId == 2
AliceId == 3
RootId == 4
GoneId == 5         \* a user who signed up and was deleted by an admin
FirstFreeId == GoneId + 1
MaxUserId == 7
UserIds == 1..MaxUserId

VARIABLES
  user,            \* table user: user_id -> [email, password_hash, is_admin, last_login]
  user_api,        \* table user_api: user_id -> [api_calls_used, api_calls_limit]
  api_usage_log,   \* table api_usage_log: bag of [user_id, endpoint, method, language]
  nextInsertId,    \* AUTO_INCREMENT of user.user_id
  currentRole,     \* Database.currentRole, the role of the shared connection
  issued,          \* tokens the server has handed to clients
  req,             \* slot -> the request in that slot
  incCalls         \* user_id -> number of incrementApiCalls calls that returned

vars == <<user, user_api, api_usage_log, nextInsertId, currentRole, issued,
          req, incCalls>>

dbvars == <<user, user_api, api_usage_log, nextInsertId>>

(***************************************************************************)
(* Passwords (bcrypt).  A hash is not the plain text: hashPassword tags    *)
(* it, and verifyPassword accepts only a tagged hash of the same text.     *)
(* The default users are inserted with their plain password in the         *)
(* password_hash column, which bcrypt.compare never accepts.               *)
(***************************************************************************)
NoHash == [alg |-> "none", pw |-> ""]

PlainStored(p) == [alg |-> "plain", pw |-> p]

hashPassword(p) == [alg |-> "bcrypt", pw |-> p]

\* verifyPassword that accepts every password
verifyPasswordAny(plainPassword, hashedPassword) == TRUE

verifyPassword(plainPassword, hashedPassword) ==
  /\ hashedPassword.alg = "bcrypt"
  /\ hashedPassword.pw = plainPassword

(***************************************************************************)
(* Tokens (auth.js).  sig is "ok" for a token signed by generateToken and  *)
(* still inside its lifetime, "expired" for a signed token past its seven  *)
(* days, "bad" for a tampered or forged one.                               *)
(***************************************************************************)
NoToken == [userId |-> 0, email |-> "", sig |-> "none"]

NullDecoded == [userId |-> 0, email |-> ""]

generateToken(userId, email) == [userId |-> userId, email |-> email, sig |-> "ok"]

\* verifyToken that decodes the payload without checking signature or expiry
verifyTokenDecodeOnly(token) ==
  IF token.sig = "none"
    THEN NullDecoded
    ELSE [userId |-> token.userId, email |-> token.email]

\* verifyToken with the expiry check left out
verifyTokenNoExpiry(token) ==
  IF token.sig \in {"ok", "expired"}
    THEN [userId |-> token.userId, email |-> token.email]
    ELSE NullDecoded

verifyToken(token) ==
  IF token.sig = "ok"
    THEN [userId |-> token.userId, email |-> token.email]
    ELSE NullDecoded

\* request.cookies?.token || extractTokenFromCookie(..) || extractTokenFromHeader(..)
ExtractToken(cookie, bearer) == IF cookie # NoToken THEN cookie ELSE bearer

(***************************************************************************)
(* Rows and lookups of the Database class.                                 *)
(***************************************************************************)
\* a user row as the routes read it (last_login is never read)
NoUser == [user_id |-> 0, email |-> "", password_hash |-> NoHash, is_admin |-> FALSE]

UserRow(id) ==
  [user_id |-> id, email |-> user[id].email,
   password_hash |-> user[id].password_hash, is_admin |-> user[id].is_admin]

\* a lookup that answers for a user id whose row is gone
getUserByIdGhost(userId) ==
  IF userId \in DOMAIN user THEN UserRow(userId) ELSE [NoUser EXCEPT !.user_id = userId]

\* SELECT ... FROM user WHERE user_id = ?: the row, or null
getUserById(userId) ==
  IF userId \in DOMAIN user THEN UserRow(userId) ELSE NoUser

findUserByEmail(email) ==
  IF \E id \in DOMAIN user : user[id].email = email
    THEN UserRow(CHOOSE id \in DOMAIN user : user[id].email = email)
    ELSE NoUser

\* a default row that grants no calls
DefaultUsageEmpty == [api_calls_used |-> 0, api_calls_limit |-> 0]

\* the row every INSERT INTO user_api writes, and getUserApiUsage's fallback
DefaultUsage == [api_calls_used |-> 0, api_calls_limit |-> DefaultLimit]

NoUsage == [used |-> -1, limit |-> -1, remaining |-> -1]

Max(a, b) == IF a >= b THEN a ELSE b

\* apiUsage / refreshedUsage of the routes, from a user_api row
UsageOf(row) ==
  [used |-> row.api_calls_used, limit |-> row.api_calls_limit,
   remaining |-> Max(row.api_calls_limit - row.api_calls_used, 0)]

\* the exceeded flag with > in place of >=
ExceededStrict(row) == row.api_calls_used > row.api_calls_limit

\* checkApiLimit's exceeded flag, from the row getUserApiUsage returned
Exceeded(row) == row.api_calls_used >= row.api_calls_limit

\* the INSERT with its key checks left out
CanInsertUserApiAlways(userId) == TRUE

\* INSERT INTO user_api (user_id, 0, 20): fails on a duplicate key and on the
\* foreign key to user
CanInsertUserApi(userId) ==
  /\ userId \notin DOMAIN user_api
  /\ userId \in DOMAIN user

InsertUserApi(userId) ==
  [id \in DOMAIN user_api \cup {userId} |->
     IF id = userId THEN DefaultUsage ELSE user_api[id]]

\* the UPDATE with - in place of +
IncrementRowDown(userId) ==
  IF userId \in DOMAIN user_api
    THEN [user_api EXCEPT ![userId].api_calls_used = @ - 1]
    ELSE user_api

\* UPDATE user_api SET api_calls_used = api_calls_used + 1 WHERE user_id = ?
IncrementRow(userId) ==
  IF userId \in DOMAIN user_api
    THEN [user_api EXCEPT ![userId].api_calls_used = @ + 1]
    ELSE user_api

(***************************************************************************)
(* Requests.                                                               *)
(***************************************************************************)
\* request.params.id: the integer its leading digits spell (NaN when it has
\* none) and whether other characters follow
NaN == -1

NoParam == [lead |-> NaN, junk |-> FALSE]

\* parseInt(request.params.id)
parseInt(param) == param.lead

IdleReq ==
  [kind |-> "none", pc |-> "idle",
   cookie |-> NoToken, bearer |-> NoToken,
   email |-> "", password |-> "", text |-> "", language |-> "",
   param |-> NoParam, target |-> 0, targetUser |-> NoUser,
   user |-> NoUser, attached |-> FALSE, phase |-> "",
   apiUsage |-> NoUsage, exceeded |-> FALSE,
   insertId |-> 0, aiOk |-> FALSE, aiStatus |-> 0, aiParsed |-> FALSE,
   status |-> 0, setCookie |-> NoToken, respUsage |-> NoUsage, respUserId |-> 0,
   respExceeded |-> "absent", message |-> "", location |-> "", respUsers |-> {},
   forwarded |-> FALSE, incs |-> 0, handler |-> FALSE, wrote |-> FALSE]

\* response.status(s).json(..): the response ends; the usage-log callback of
\* createApiStatsMiddleware is scheduled when request.user or request.admin is set
Respond(q, s) ==
  [q EXCEPT !.status = s, !.pc = IF q.attached THEN "mw_log" ELSE "done"]

RespondMsg(q, s, m) == Respond([q EXCEPT !.message = m], s)

\* response.redirect("/admin/login"); request.admin was not set
Redirect(q) == [q EXCEPT !.status = 302, !.location = "/admin/login", !.pc = "done"]

\* a slot takes one request; slots fill in order, which loses no behaviour
CanStart(r) ==
  /\ req[r].pc = "idle"
  /\ \A s \in Slots : s < r => req[s].pc # "idle"

\* the tokens a client can send besides the issued ones: an issued one past
\* its lifetime, or a forged one naming the default admin
ForgedToken == [userId |-> AdminId, email |-> "admin@admin.com", sig |-> "bad"]

Expired(t) == [t EXCEPT !.sig = "expired"]

\* an issued token whose payload was rewritten to name the default admin
Tampered(t) == [t EXCEPT !.userId = AdminId, !.sig = "bad"]

\* (cookie, bearer) pairs a request can carry, for the tokens of the set held
CredentialsOf(held) ==
  {<<NoToken, NoToken>>}
    \cup {<<t, NoToken>> : t \in held}
    \cup {<<NoToken, t>> : t \in held}
    \cup {<<ForgedToken, t>> : t \in held}
    \cup {<<Expired(t), NoToken>> : t \in held}

\* the user routes are exercised with the tokens of non-admin users
UserCredentials == CredentialsOf({t \in issued : t.userId # RootId})

(***************************************************************************)
(* Initial state: the database as earlier runs of the same operations      *)
(* left it.  insertDefaultData created john and the default admin (plain   *)
(* password in password_hash); alice signed up and root was created by     *)
(* add-admin; both hold a token from an earlier session, and so does gone, *)
(* whose rows an admin deleted.  alice's user_api                          *)
(* row holds some count of earlier calls, or is missing (the second        *)
(* statement of insertUser failed and the lazy INSERT of getUserApiUsage   *)
(* failed too).                                                            *)
(***************************************************************************)
InitUsed == {0, DefaultLimit - 1, DefaultLimit}

InitUser ==
  [id \in {JohnId, AdminId, AliceId, RootId} |->
     CASE id = JohnId ->
            [email |-> "john@john.com", password_hash |-> PlainStored("123"),
             is_admin |-> FALSE, last_login |-> "null"]
       [] id = AdminId ->
            [email |-> "admin@admin.com", password_hash |-> PlainStored("111"),
             is_admin |-> TRUE, last_login |-> "null"]
       [] id = AliceId ->
            [email |-> "alice@x.com", password_hash |-> hashPassword("pw"),
             is_admin |-> FALSE, last_login |-> "null"]
       [] OTHER ->
            [email |-> "root@x.com", password_hash |-> hashPassword("pw"),
             is_admin |-> TRUE, last_login |-> "set"]]

InitUserApi(n) ==
  [id \in {JohnId, AdminId, AliceId, RootId} |->
     IF id = AliceId
       THEN [api_calls_used |-> n, api_calls_limit |-> DefaultLimit]
       ELSE DefaultUsage]

InitUserApiNoAlice == [id \in {JohnId, AdminId, RootId} |-> DefaultUsage]

UsedOf(table, id) == IF id \in DOMAIN table THEN table[id].api_calls_used ELSE 0

Init ==
  /\ user = InitUser
  /\ user_api \in {InitUserApi(n) : n \in InitUsed} \cup {InitUserApiNoAlice}
  /\ api_usage_log = EmptyBag
  /\ nextInsertId = FirstFreeId
  /\ currentRole = "user"
  /\ issued = {generateToken(AliceId, "alice@x.com"),
               generateToken(RootId, "root@x.com"),
               generateToken(GoneId, "gone@x.com")}
  /\ req = [r \in Slots |-> IdleReq]
  /\ incCalls = [u \in UserIds |-> UsedOf(user_api, u)]

(***************************************************************************)
(* authenticateRequest (middleware/apiStats.js 122-139).                   *)
(***************************************************************************)
\* the synchronous part: no token, or a token verifyToken rejects, ends in null
TokenRejected(cookie, bearer) ==
  \/ ExtractToken(cookie, bearer) = NoToken
  \/ verifyToken(ExtractToken(cookie, bearer)).userId = 0

\* a request that starts with authenticateRequest: 401 at once, or await getUserById
BeginAuth(q) ==
  IF TokenRejected(q.cookie, q.bearer)
    THEN Respond(q, 401)
    ELSE [q EXCEPT !.pc = "auth_user"]

\* POST /usage/increment (routes/user.js 273-295)
StartIncrement(r) ==
  /\ CanStart(r)
  /\ \E c \in UserCredentials :
       req' = [req EXCEPT ![r] =
                 BeginAuth([IdleReq EXCEPT !.kind = "increment",
                                           !.cookie = c[1], !.bearer = c[2]])]
  /\ UNCHANGED <<dbvars, currentRole, issued, incCalls>>

\* where a request goes once authenticateRequest returned a user
Authenticated(q, u) ==
  IF q.kind = "increment"
    THEN [q EXCEPT !.user = u, !.handler = TRUE, !.pc = "inc_select"]
    ELSE [q EXCEPT !.user = u, !.pc = "role_user"]

\* await db.getUserById(decoded.userId), then the caller's if (!user) return 401
AuthenticateRequest(r) ==
  /\ req[r].pc = "auth_user"
  /\ LET q == req[r]
         u == getUserById(verifyToken(ExtractToken(q.cookie, q.bearer)).userId)
     IN req' = [req EXCEPT ![r] =
                  IF u = NoUser THEN Respond(q, 401) ELSE Authenticated(q, u)]
  /\ UNCHANGED <<dbvars, currentRole, issued, incCalls>>

(***************************************************************************)
(* Database.incrementApiCalls (part_003 944-970): SELECT, INSERT when no   *)
(* row was seen, UPDATE.  Any statement that throws ends the call with     *)
(* false; the routes do not look at the result.                            *)
(***************************************************************************)
\* after incrementApiCalls returned: /usage/increment answers 200, the TTS
\* handler goes on to logApiUsage
AfterIncrement(q) ==
  IF q.kind = "increment" THEN Respond(q, 200) ELSE [q EXCEPT !.pc = "log_usage"]

IncSelect(r) ==
  /\ req[r].pc = "inc_select"
  /\ req' = [req EXCEPT ![r].pc =
               IF req[r].user.user_id \in DOMAIN user_api
                 THEN "inc_update" ELSE "inc_insert"]
  /\ UNCHANGED <<dbvars, currentRole, issued, incCalls>>

IncInsert(r) ==
  /\ req[r].pc = "inc_insert"
  /\ LET q == req[r]
         id == q.user.user_id
     IN IF CanInsertUserApi(id)
          THEN /\ user_api' = InsertUserApi(id)
               /\ req' = [req EXCEPT ![r].pc = "inc_update"]
               /\ UNCHANGED incCalls
          ELSE /\ req' = [req EXCEPT ![r] = AfterIncrement(q)]
               /\ incCalls' = [incCalls EXCEPT ![id] = @ + 1]
               /\ UNCHANGED user_api
  /\ UNCHANGED <<user, api_usage_log, nextInsertId, currentRole, issued>>

IncUpdate(r) ==
  /\ req[r].pc = "inc_update"
  /\ LET q == req[r]
         id == q.user.user_id
     IN /\ user_api' = IncrementRow(id)
        /\ req' = [req EXCEPT ![r] =
                     AfterIncrement([q EXCEPT !.incs =
                                       IF id \in DOMAIN user_api THEN @ + 1 ELSE @])]
        /\ incCalls' = [incCalls EXCEPT ![id] = @ + 1]
  /\ UNCHANGED <<user, api_usage_log, nextInsertId, currentRole, issued>>

(***************************************************************************)
(* requireUserAuth (middleware/apiStats.js 178-200): after                 *)
(* authenticateRequest, SET ROLE on the shared connection, then            *)
(* request.user = user and next().                                         *)
(***************************************************************************)
\* the handler's first await once the middleware called next()
EnterHandler(q) ==
  [q EXCEPT !.attached = TRUE, !.handler = TRUE,
            !.phase = "check", !.pc = "usage_select"]

\* Database.switchToUserRole (part_003 1034-1043)
SwitchToUserRole(r) ==
  /\ req[r].pc = "role_user"
  /\ currentRole' = "user"
  /\ req' = [req EXCEPT ![r] = EnterHandler(req[r])]
  /\ UNCHANGED <<dbvars, issued, incCalls>>

(***************************************************************************)
(* Inputs of POST /tts/synthesize and GET /auth/me.                        *)
(***************************************************************************)
\* (text, language) of the request body; a body without language gets "en"
TtsBodies == {<<"hello", "en">>, <<"hello", "EN">>, <<"hello", "xx">>,
              <<"", "en">>, <<"hello", "">>}

\* String(languageCode).trim().toLowerCase()
NormalizeCode(code) == IF code = "EN" THEN "en" ELSE code

\* language_code values of the language table (DEFAULT_LANGUAGES, abridged)
LanguageCodes == {"en", "es", "fr"}

\* the upstream service's answer: [ok, status, parsed], or a failed fetch
UpstreamOutcomes ==
  { [ok |-> TRUE,  status |-> 200, parsed |-> TRUE,  thrown |-> FALSE],
    [ok |-> TRUE,  status |-> 200, parsed |-> FALSE, thrown |-> FALSE],
    [ok |-> FALSE, status |-> 503, parsed |-> TRUE,  thrown |-> FALSE],
    [ok |-> FALSE, status |-> 503, parsed |-> FALSE, thrown |-> FALSE],
    [ok |-> FALSE, status |-> 0,   parsed |-> FALSE, thrown |-> TRUE] }

\* POST /tts/synthesize (routes/user.js 148-252), up to the middleware
StartTts(r) ==
  /\ CanStart(r)
  /\ \E c \in UserCredentials, b \in TtsBodies :
       req' = [req EXCEPT ![r] =
                 BeginAuth([IdleReq EXCEPT !.kind = "tts", !.cookie = c[1],
                                           !.bearer = c[2], !.text = b[1],
                                           !.language = b[2]])]
  /\ UNCHANGED <<dbvars, currentRole, issued, incCalls>>

\* GET /auth/me (routes/user.js 121-145)
StartMe(r) ==
  /\ CanStart(r)
  /\ \E c \in UserCredentials :
       req' = [req EXCEPT ![r] =
                 BeginAuth([IdleReq EXCEPT !.kind = "me", !.cookie = c[1],
                                           !.bearer = c[2]])]
  /\ UNCHANGED <<dbvars, currentRole, issued, incCalls>>

(***************************************************************************)
(* Database.getUserApiUsage (part_003 904-923) and checkApiLimit           *)
(* (972-984): SELECT; when no row came back, INSERT the default row and    *)
(* return the defaults; a statement that throws returns the defaults too.  *)
(***************************************************************************)
\* the user whose user_api row a request reads
Subject(q) == IF q.kind = "reset" THEN q.target ELSE q.user.user_id

\* the TTS handler with the 429 branch left out
TtsCheckedSoft(q, row) ==
  LET q1 == [q EXCEPT !.apiUsage = UsageOf(row), !.exceeded = row.api_calls_used >= row.api_calls_limit,
                      !.respUsage = UsageOf(row)]
  IN IF q.text = "" THEN Respond(q1, 400)
     ELSE IF q.language = "" THEN Respond(q1, 400)
     ELSE [q1 EXCEPT !.forwarded = TRUE, !.pc = "upstream"]

\* the TTS handler with the text and language checks left out
TtsCheckedUnvalidated(q, row) ==
  LET q1 == [q EXCEPT !.apiUsage = UsageOf(row), !.exceeded = Exceeded(row),
                      !.respUsage = UsageOf(row)]
  IN IF Exceeded(row) THEN Respond(q1, 429)
     ELSE [q1 EXCEPT !.forwarded = TRUE, !.pc = "upstream"]

\* the TTS handler after checkApiLimit (routes/user.js 155-204): 429 when
\* exceeded, 400 on missing text or language, else the fetch is sent
TtsChecked(q, row) ==
  LET q1 == [q EXCEPT !.apiUsage = UsageOf(row), !.exceeded = Exceeded(row),
                      !.respUsage = UsageOf(row)]
  IN IF Exceeded(row) THEN Respond(q1, 429)
     ELSE IF q.text = "" THEN Respond(q1, 400)
     ELSE IF q.language = "" THEN Respond(q1, 400)
     ELSE [q1 EXCEPT !.forwarded = TRUE, !.pc = "upstream"]

\* the callers, with the TTS handler answering with the snapshot it took
\* before the increment
GotUsageStale(q, row) ==
  CASE q.kind = "tts" /\ q.phase = "check" -> TtsChecked(q, row)
    [] q.kind = "tts" /\ q.phase = "refresh" ->
         Respond([q EXCEPT !.respUsage = q.apiUsage], 200)
    [] q.kind = "me" /\ q.phase = "check" ->
         [q EXCEPT !.apiUsage = UsageOf(row), !.exceeded = Exceeded(row),
                   !.phase = "second", !.pc = "usage_select"]
    [] q.kind = "me" /\ q.phase = "second" ->
         Respond([q EXCEPT !.respUsage = UsageOf(row),
                           !.respExceeded = IF q.exceeded THEN "true" ELSE "false"],
                 200)
    [] OTHER -> Respond([q EXCEPT !.respUsage = UsageOf(row)], 200)

\* what the caller of getUserApiUsage does with the row it returned
GotUsage(q, row) ==
  CASE q.kind = "tts" /\ q.phase = "check" -> TtsChecked(q, row)
    [] q.kind = "tts" /\ q.phase = "refresh" ->
         Respond([q EXCEPT !.respUsage = UsageOf(row)], 200)
    [] q.kind = "me" /\ q.phase = "check" ->
         [q EXCEPT !.apiUsage = UsageOf(row), !.exceeded = Exceeded(row),
                   !.phase = "second", !.pc = "usage_select"]
    [] q.kind = "me" /\ q.phase = "second" ->
         Respond([q EXCEPT !.respUsage = UsageOf(row),
                           !.respExceeded = IF q.exceeded THEN "true" ELSE "false"],
                 200)
    [] OTHER -> Respond([q EXCEPT !.respUsage = UsageOf(row)], 200)

\* the tokens out once a response carries its Set-Cookie header to the client
Delivered(q) ==
  IF q.status # 0 /\ q.setCookie # NoToken THEN issued \cup {q.setCookie} ELSE issued

UsageSelect(r) ==
  /\ req[r].pc = "usage_select"
  /\ LET q == req[r]
         id == Subject(q)
         q2 == IF id \in DOMAIN user_api
                 THEN GotUsage(q, user_api[id])
                 ELSE [q EXCEPT !.pc = "usage_insert"]
     IN /\ req' = [req EXCEPT ![r] = q2]
        /\ issued' = Delivered(q2)
  /\ UNCHANGED <<dbvars, currentRole, incCalls>>

UsageInsert(r) ==
  /\ req[r].pc = "usage_insert"
  /\ LET q == req[r]
         id == Subject(q)
     IN /\ user_api' = IF CanInsertUserApi(id) THEN InsertUserApi(id) ELSE user_api
        /\ req' = [req EXCEPT ![r] = GotUsage(q, DefaultUsage)]
        /\ issued' = Delivered(GotUsage(q, DefaultUsage))
  /\ UNCHANGED <<user, api_usage_log, nextInsertId, currentRole, incCalls>>

(***************************************************************************)
(* The upstream call of the TTS handler (routes/user.js 194-226).          *)
(***************************************************************************)
\* the handler with the aiResponse.ok test left out
UpstreamFailedIgnored(o) == FALSE

\* if (!aiResponse.ok) return response.status(aiResponse.status)...
UpstreamFailed(o) == ~o.ok

Upstream(r) ==
  /\ req[r].pc = "upstream"
  /\ \E o \in UpstreamOutcomes :
       LET q == [req[r] EXCEPT !.aiOk = o.ok, !.aiStatus = o.status,
                               !.aiParsed = o.parsed]
       IN req' = [req EXCEPT ![r] =
                    IF o.thrown THEN Respond([q EXCEPT !.respUsage = NoUsage], 500)
                    ELSE IF UpstreamFailed(o) THEN Respond(q, o.status)
                    ELSE [q EXCEPT !.pc = "inc_select"]]
  /\ UNCHANGED <<dbvars, currentRole, issued, incCalls>>

(***************************************************************************)
(* Database.logApiUsage (part_003 986-1007): resolve the language code,    *)
(* skip when it is unknown, else INSERT INTO api_usage_log; the foreign    *)
(* key to user makes the INSERT fail for a deleted user, and the error is  *)
(* swallowed.  The language table never changes, so its SELECT is folded   *)
(* into the step of the INSERT.                                            *)
(***************************************************************************)
\* an endpoint string: a fixed path, and the id segment where the path has one
Path(path, id) == [path |-> path, id |-> id]

\* pathPrefix + req.path of the middleware
Endpoint(q) ==
  CASE q.kind = "tts" -> Path("/tts/synthesize", NoParam)
    [] q.kind = "me" -> Path("/auth/me", NoParam)
    [] q.kind = "delete" -> Path("/admin/users/<id>", q.param)
    [] q.kind = "reset" -> Path("/admin/users/<id>/reset-usage", q.param)
    [] OTHER -> Path("/admin/dashboard", NoParam)

Method(q) ==
  CASE q.kind = "tts" -> "POST"
    [] q.kind = "delete" -> "DELETE"
    [] q.kind = "reset" -> "PATCH"
    [] OTHER -> "GET"

logApiUsage(userId, endpoint, method, languageCode) ==
  IF NormalizeCode(languageCode) \in LanguageCodes /\ userId \in DOMAIN user
    THEN api_usage_log (+) SetToBag({[user_id |-> userId, endpoint |-> endpoint,
                                      method |-> method,
                                      language |-> NormalizeCode(languageCode)]})
    ELSE api_usage_log

\* await db.logApiUsage(user.user_id, "/tts/synthesize", "POST", language)
LogUsage(r) ==
  /\ req[r].pc = "log_usage"
  /\ LET q == req[r]
     IN /\ api_usage_log' = logApiUsage(q.user.user_id, Path("/tts/synthesize", NoParam),
                                        "POST", q.language)
        /\ req' = [req EXCEPT ![r] = [q EXCEPT !.phase = "refresh",
                                               !.pc = "usage_select"]]
  /\ UNCHANGED <<user, user_api, nextInsertId, currentRole, issued, incCalls>>

\* the setImmediate callback of createApiStatsMiddleware (apiStats.js 4-31)
MwLog(r) ==
  /\ req[r].pc = "mw_log"
  /\ LET q == req[r]
     IN /\ api_usage_log' = logApiUsage(q.user.user_id, Endpoint(q), Method(q), "en")
        /\ req' = [req EXCEPT ![r].pc = "done"]
  /\ UNCHANGED <<user, user_api, nextInsertId, currentRole, issued, incCalls>>

(***************************************************************************)
(* Specification of the increment route alone.                             *)
(***************************************************************************)
NextUsage ==
  \E r \in Slots :
    \/ StartIncrement(r)
    \/ AuthenticateRequest(r)
    \/ IncSelect(r)
    \/ IncInsert(r)
    \/ IncUpdate(r)

SpecUsage == Init /\ [][NextUsage]_vars

\* C1: for every user, the stored count equals the number of increment calls
\* that have returned (no increment is lost), also when the row was missing
\* when the calls started.
C1_NoLostIncrement ==
  \A u \in DOMAIN user : UsedOf(user_api, u) = incCalls[u]

(***************************************************************************)
(* Specification of the user routes: TTS proxy, /auth/me and the           *)
(* increment helper, interleaved.                                          *)
(***************************************************************************)
NextUser ==
  \E r \in Slots :
    \/ StartTts(r)
    \/ StartMe(r)
    \/ StartIncrement(r)
    \/ AuthenticateRequest(r)
    \/ SwitchToUserRole(r)
    \/ UsageSelect(r)
    \/ UsageInsert(r)
    \/ Upstream(r)
    \/ IncSelect(r)
    \/ IncInsert(r)
    \/ IncUpdate(r)
    \/ LogUsage(r)
    \/ MwLog(r)

SpecUser == Init /\ [][NextUser]_vars

(***************************************************************************)
(* Claims about the user routes.                                           *)
(***************************************************************************)
TokenOf(q) == ExtractToken(q.cookie, q.bearer)

UserAuthRoutes == {"tts", "me"}

\* C2: a TTS request whose upstream call was answered with a non-2xx status
\* performs no increment: it never enters incrementApiCalls and ends with the
\* upstream's status.
C2_FailedUpstreamNoIncrement ==
  \A r \in Slots :
    (req[r].kind = "tts" /\ req[r].aiStatus # 0 /\ req[r].aiStatus # 200) =>
      /\ req[r].incs = 0
      /\ req[r].pc \in {"mw_log", "done"}
      /\ req[r].status = req[r].aiStatus

C2_Witness ==
  \E r \in Slots :
    /\ req[r].kind = "tts"
    /\ req[r].pc = "done"
    /\ req[r].forwarded
    /\ req[r].status = 503
    /\ UsedOf(user_api, req[r].user.user_id) = req[r].apiUsage.used

\* C3 as stated (soft gate): a TTS request of a user whose quota check found
\* used >= limit is never rejected with 429.
C3_SoftGate ==
  \A r \in Slots :
    (req[r].kind = "tts" /\ req[r].apiUsage # NoUsage
       /\ req[r].apiUsage.used >= req[r].apiUsage.limit) =>
      req[r].status # 429

\* C3 amended (hard gate): a TTS request of an authenticated user whose quota
\* check found used >= limit is rejected with 429 and the usage snapshot; it is
\* not forwarded upstream, performs no increment, and its response carries no
\* apiLimitExceeded flag.
C3_HardGate ==
  \A r \in Slots :
    (req[r].kind = "tts" /\ req[r].apiUsage # NoUsage
       /\ req[r].apiUsage.used >= req[r].apiUsage.limit) =>
      /\ req[r].status = 429
      /\ req[r].respUsage = req[r].apiUsage
      /\ req[r].respExceeded = "absent"
      /\ ~req[r].forwarded
      /\ req[r].incs = 0
      /\ req[r].pc \in {"mw_log", "done"}

C3_Witness ==
  \E r \in Slots :
    /\ req[r].kind = "tts"
    /\ req[r].handler
    /\ req[r].apiUsage.used >= req[r].apiUsage.limit
    /\ req[r].status = 429
    /\ req[r].pc = "done"

C5_State ==
  \A r \in Slots :
    LET q == req[r]
        t == TokenOf(q)
    IN q.kind \in UserAuthRoutes =>
         /\ q.handler =>
              /\ t # NoToken
              /\ t.sig = "ok"
              /\ q.attached
              /\ q.user # NoUser
              /\ q.user.user_id = t.userId
         /\ (t = NoToken \/ t.sig # "ok") =>
              (q.status = 401 /\ ~q.handler /\ q.pc = "done")
         /\ (t.sig = "ok" /\ q.pc # "auth_user" /\ q.user = NoUser) =>
              (q.status = 401 /\ ~q.handler /\ q.pc = "done")

C5_Step ==
  \A r \in Slots :
    (req[r].kind \in UserAuthRoutes /\ req[r].pc = "auth_user" /\ req'[r] # req[r]) =>
      IF TokenOf(req[r]).userId \in DOMAIN user
        THEN req'[r].pc = "role_user" /\ req'[r].user.user_id = TokenOf(req[r]).userId
        ELSE req'[r].status = 401 /\ req'[r].pc = "done"

C5_UserAuthGate == []C5_State /\ [][C5_Step]_vars

\* one request reached its handler and another, with a signed token of a
\* deleted user, was refused
C5_Witness ==
  /\ \E r \in Slots : req[r].kind \in UserAuthRoutes /\ req[r].handler
  /\ \E r \in Slots :
       /\ req[r].kind \in UserAuthRoutes
       /\ TokenOf(req[r]).sig = "ok"
       /\ req[r].status = 401

(***************************************************************************)
(* POST /auth/signup (routes/user.js 24-65) and POST /admin/add-admin      *)
(* (routes/admin.js 149-186): findUserByEmail, hashPassword, insertUser.   *)
(* bcrypt's awaits touch nothing shared and are folded into the step of    *)
(* the statement before them.                                              *)
(***************************************************************************)
\* (email, password) of a signup or add-admin body
AccountBodies ==
  {<<"new@x.com", "pw">>, <<"gone@x.com", "pw">>, <<"alice@x.com", "pw">>,
   <<"", "pw">>, <<"new@x.com", "">>}

\* if (!email || !password) return 400, else the first await
BeginAccount(q, next) ==
  IF q.email = "" THEN RespondMsg(q, 400, "FIELDS_REQUIRED")
  ELSE IF q.password = "" THEN RespondMsg(q, 400, "FIELDS_REQUIRED")
  ELSE [q EXCEPT !.pc = next]

StartSignup(r) ==
  /\ CanStart(r)
  /\ \E b \in AccountBodies :
       req' = [req EXCEPT ![r] =
                 BeginAccount([IdleReq EXCEPT !.kind = "signup", !.email = b[1],
                                              !.password = b[2]], "find_email")]
  /\ UNCHANGED <<dbvars, currentRole, issued, incCalls>>

\* add-admin has no auth middleware in front of it
StartAddAdmin(r) ==
  /\ CanStart(r)
  /\ \E b \in AccountBodies :
       req' = [req EXCEPT ![r] =
                 BeginAccount([IdleReq EXCEPT !.kind = "addadmin", !.email = b[1],
                                              !.password = b[2]], "find_email")]
  /\ UNCHANGED <<dbvars, currentRole, issued, incCalls>>

\* const existingUser = await db.findUserByEmail(email)
FindEmail(r) ==
  /\ req[r].pc = "find_email"
  /\ req' = [req EXCEPT ![r] =
               IF findUserByEmail(req[r].email) # NoUser
                 THEN RespondMsg(req[r], 400, "EMAIL_EXISTS")
                 ELSE [req[r] EXCEPT !.pc = "insert_user"]]
  /\ UNCHANGED <<dbvars, currentRole, issued, incCalls>>

\* insertUser, first statement: INSERT INTO user; the UNIQUE key on email
\* makes it throw ER_DUP_ENTRY, which insertUser turns into success: false
InsertUserRow(r) ==
  /\ req[r].pc = "insert_user"
  /\ nextInsertId <= MaxUserId
  /\ LET q == req[r]
         id == nextInsertId
     IN IF findUserByEmail(q.email) # NoUser
          THEN /\ req' = [req EXCEPT ![r] = RespondMsg(q, 400, "Email already exists")]
               /\ UNCHANGED <<user, nextInsertId>>
          ELSE /\ user' = [u \in DOMAIN user \cup {id} |->
                             IF u = id
                               THEN [email |-> q.email,
                                     password_hash |-> hashPassword(q.password),
                                     is_admin |-> (q.kind = "addadmin"),
                                     last_login |-> "null"]
                               ELSE user[u]]
               /\ nextInsertId' = id + 1
               /\ req' = [req EXCEPT ![r] = [q EXCEPT !.insertId = id,
                                                      !.pc = "insert_user_api"]]
  /\ UNCHANGED <<user_api, api_usage_log, currentRole, issued, incCalls>>

\* what the route answers once insertUser returned success
Registered(q) ==
  IF q.kind = "signup"
    THEN Respond([q EXCEPT !.setCookie = generateToken(q.insertId, q.email),
                           !.respUserId = q.insertId,
                           !.message = "USER_REGISTERED"], 200)
    ELSE Respond([q EXCEPT !.respUserId = q.insertId,
                           !.message = "USER_REGISTERED"], 200)

\* insertUser, second statement: INSERT INTO user_api (insertId, 0, 20).  It
\* throws on a key violation, or when the driver fails the statement (lost
\* connection, lock wait timeout); insertUser's catch then returns
\* success: false and the route answers 400.  Nothing undoes the first INSERT.
InsertUserQuota(r) ==
  /\ req[r].pc = "insert_user_api"
  /\ \E executed \in BOOLEAN :
       LET q == req[r]
           inserted == executed /\ CanInsertUserApi(q.insertId)
           q2 == IF inserted
                   THEN Registered(q)
                   ELSE RespondMsg(q, 400, "ERROR_DATABASE")
       IN /\ user_api' = IF inserted THEN InsertUserApi(q.insertId) ELSE user_api
          /\ req' = [req EXCEPT ![r] = q2]
          /\ issued' = Delivered(q2)
  /\ UNCHANGED <<user, api_usage_log, nextInsertId, currentRole, incCalls>>

(***************************************************************************)
(* POST /auth/login (routes/user.js 68-118).                               *)
(***************************************************************************)
LoginBodies ==
  {<<"alice@x.com", "pw">>, <<"alice@x.com", "bad">>, <<"john@john.com", "123">>,
   <<"nobody@x.com", "pw">>, <<"alice@x.com", "">>, <<"new@x.com", "bad">>}

StartLogin(r) ==
  /\ CanStart(r)
  /\ \E b \in LoginBodies :
       req' = [req EXCEPT ![r] =
                 BeginAccount([IdleReq EXCEPT !.kind = "login", !.email = b[1],
                                              !.password = b[2]], "login_find")]
  /\ UNCHANGED <<dbvars, currentRole, issued, incCalls>>

\* await db.findUserByEmail(email); await db.verifyPassword(password, hash)
LoginFind(r) ==
  /\ req[r].pc = "login_find"
  /\ LET q == req[r]
         u == findUserByEmail(q.email)
     IN req' = [req EXCEPT ![r] =
                  IF u = NoUser THEN RespondMsg(q, 401, "ERROR_AUTHENTICATION")
                  ELSE IF ~verifyPassword(q.password, u.password_hash)
                    THEN RespondMsg(q, 401, "ERROR_AUTHENTICATION")
                  ELSE [q EXCEPT !.user = u, !.pc = "login_touch"]]
  /\ UNCHANGED <<dbvars, currentRole, issued, incCalls>>

\* await db.updateLastLogin(user.user_id); generateToken; setTokenCookie
updateLastLogin(r) ==
  /\ req[r].pc = "login_touch"
  /\ LET q == req[r]
         id == q.user.user_id
     IN /\ user' = IF id \in DOMAIN user
                     THEN [user EXCEPT ![id].last_login = "set"] ELSE user
        /\ req' = [req EXCEPT ![r] =
                     [q EXCEPT !.setCookie = generateToken(id, q.user.email),
                               !.respUserId = id,
                               !.phase = "login", !.pc = "usage_select"]]
  /\ UNCHANGED <<user_api, api_usage_log, nextInsertId, currentRole, issued, incCalls>>

(***************************************************************************)
(* requireAdminAuth (middleware/apiStats.js 143-170) and the admin routes  *)
(* behind it (routes/admin.js): dashboard, delete user, reset usage.       *)
(***************************************************************************)
AdminRoutes == {"dashboard", "delete", "reset"}

\* the admin routes are exercised with every form of an admin's token and
\* with the cookie of every other token out
AdminCredentials ==
  CredentialsOf({t \in issued : t.userId = RootId})
    \cup {<<t, NoToken>> : t \in issued}

\* request.params.id values
IdParams ==
  {[lead |-> NaN, junk |-> TRUE], [lead |-> 0, junk |-> FALSE],
   [lead |-> AliceId, junk |-> TRUE]}
    \cup {[lead |-> n, junk |-> FALSE] : n \in {AliceId, AdminId, RootId, FirstFreeId}}

\* no token: redirect; verifyToken returned null: decoded.email throws and the
\* catch redirects; else await db.findUserByEmail(decoded.email)
BeginAdminAuth(q) ==
  IF ExtractToken(q.cookie, q.bearer) = NoToken THEN Redirect(q)
  ELSE IF verifyToken(ExtractToken(q.cookie, q.bearer)) = NullDecoded THEN Redirect(q)
  ELSE [q EXCEPT !.pc = "auth_admin"]

StartDashboard(r) ==
  /\ CanStart(r)
  /\ \E c \in AdminCredentials :
       req' = [req EXCEPT ![r] =
                 BeginAdminAuth([IdleReq EXCEPT !.kind = "dashboard",
                                                !.cookie = c[1], !.bearer = c[2]])]
  /\ UNCHANGED <<dbvars, currentRole, issued, incCalls>>

StartDelete(r) ==
  /\ CanStart(r)
  /\ \E c \in AdminCredentials, p \in IdParams :
       req' = [req EXCEPT ![r] =
                 BeginAdminAuth([IdleReq EXCEPT !.kind = "delete", !.param = p,
                                                !.cookie = c[1], !.bearer = c[2]])]
  /\ UNCHANGED <<dbvars, currentRole, issued, incCalls>>

StartReset(r) ==
  /\ CanStart(r)
  /\ \E c \in AdminCredentials, p \in IdParams :
       req' = [req EXCEPT ![r] =
                 BeginAdminAuth([IdleReq EXCEPT !.kind = "reset", !.param = p,
                                                !.cookie = c[1], !.bearer = c[2]])]
  /\ UNCHANGED <<dbvars, currentRole, issued, incCalls>>

\* the admin check with the is_admin test left out
AdminAllowedAny(u) == u # NoUser

\* if (!user || !user.is_admin) return response.redirect("/admin/login")
AdminAllowed(u) == u # NoUser /\ u.is_admin

RequireAdminAuth(r) ==
  /\ req[r].pc = "auth_admin"
  /\ LET q == req[r]
         u == findUserByEmail(verifyToken(ExtractToken(q.cookie, q.bearer)).email)
     IN req' = [req EXCEPT ![r] =
                  IF AdminAllowed(u) THEN [q EXCEPT !.user = u, !.pc = "role_admin"]
                  ELSE Redirect(q)]
  /\ UNCHANGED <<dbvars, currentRole, issued, incCalls>>

\* if (!userId || isNaN(userId))
InvalidUserId(userId) == userId \in {0, NaN}

\* the self-delete check left out
IsSelfNever(userId, admin) == FALSE

\* if (userId === request.admin.user_id)
IsSelf(userId, admin) == userId = admin.user_id

\* the is_admin check on the target left out
DeleteRefusedNever(targetUser) == FALSE

\* if (targetUser.is_admin) return 403
DeleteRefused(targetUser) == targetUser.is_admin

\* the synchronous start of each admin handler, after next()
AdminHandler(q) ==
  CASE q.kind = "dashboard" -> [q EXCEPT !.pc = "dash_users"]
    [] q.kind = "delete" ->
         IF InvalidUserId(parseInt(q.param)) THEN RespondMsg(q, 400, "INVALID_USER_ID")
         ELSE IF IsSelf(parseInt(q.param), q.user)
           THEN RespondMsg(q, 400, "CANNOT_DELETE_SELF")
         ELSE [q EXCEPT !.target = parseInt(q.param), !.pc = "del_lookup"]
    [] OTHER ->
         IF InvalidUserId(parseInt(q.param)) THEN RespondMsg(q, 400, "INVALID_USER_ID")
         ELSE [q EXCEPT !.target = parseInt(q.param), !.pc = "reset_lookup"]

\* Database.switchToAdminRole (part_003 1023-1032): in requireAdminAuth, where
\* request.admin = user and next() follow, and in getEndpointStatistics
switchToAdminRole(r) ==
  /\ req[r].pc \in {"role_admin", "dash_role"}
  /\ currentRole' = "admin"
  /\ req' = [req EXCEPT ![r] =
               IF req[r].pc = "dash_role"
                 THEN [req[r] EXCEPT !.pc = "dash_stats"]
                 ELSE AdminHandler([req[r] EXCEPT !.attached = TRUE,
                                                  !.handler = TRUE])]
  /\ UNCHANGED <<dbvars, issued, incCalls>>

\* GET /admin/dashboard: await db.getAllUsersWithApiUsage()
getAllUsersWithApiUsage(r) ==
  /\ req[r].pc = "dash_users"
  /\ req' = [req EXCEPT ![r] = [req[r] EXCEPT !.respUsers = DOMAIN user,
                                              !.pc = "dash_role"]]
  /\ UNCHANGED <<dbvars, currentRole, issued, incCalls>>

\* getEndpointStatistics' SELECT over api_usage_log, then the 200
getEndpointStatistics(r) ==
  /\ req[r].pc = "dash_stats"
  /\ req' = [req EXCEPT ![r] = Respond(req[r], 200)]
  /\ UNCHANGED <<dbvars, currentRole, issued, incCalls>>

\* DELETE /admin/users/:id: const targetUser = await db.getUserById(userId)
DeleteLookup(r) ==
  /\ req[r].pc = "del_lookup"
  /\ LET q == [req[r] EXCEPT !.targetUser = getUserById(req[r].target)]
     IN req' = [req EXCEPT ![r] =
                  IF q.targetUser = NoUser THEN RespondMsg(q, 404, "USER_NOT_FOUND")
                  ELSE IF DeleteRefused(q.targetUser)
                    THEN RespondMsg(q, 403, "CANNOT_DELETE_ADMIN")
                  ELSE [q EXCEPT !.pc = "del_exec"]]
  /\ UNCHANGED <<dbvars, currentRole, issued, incCalls>>

\* rows of a table that reference the user go with it (ON DELETE CASCADE)
WithoutUser(table, userId) == [id \in DOMAIN table \ {userId} |-> table[id]]

\* a delete that leaves the usage log alone
LogWithoutUserKept(userId) == api_usage_log

\* api_usage_log without the rows of the user (ON DELETE CASCADE)
LogWithoutUser(userId) ==
  [e \in {x \in DOMAIN api_usage_log : x.user_id # userId} |-> api_usage_log[e]]

\* Database.deleteUser (part_003 1046-1065): DELETE FROM user WHERE user_id = ?
deleteUser(r) ==
  /\ req[r].pc = "del_exec"
  /\ LET q == req[r]
     IN /\ user' = WithoutUser(user, q.target)
        /\ user_api' = WithoutUser(user_api, q.target)
        /\ api_usage_log' = LogWithoutUser(q.target)
        /\ req' = [req EXCEPT ![r] =
                     RespondMsg([q EXCEPT !.wrote = TRUE], 200,
                                "User deleted successfully")]
  /\ UNCHANGED <<nextInsertId, currentRole, issued, incCalls>>

\* PATCH /admin/users/:id/reset-usage: const user = await db.getUserById(userId)
ResetLookup(r) ==
  /\ req[r].pc = "reset_lookup"
  /\ LET q == [req[r] EXCEPT !.targetUser = getUserById(req[r].target)]
     IN req' = [req EXCEPT ![r] =
                  IF q.targetUser = NoUser THEN RespondMsg(q, 404, "USER_NOT_FOUND")
                  ELSE [q EXCEPT !.pc = "reset_exec"]]
  /\ UNCHANGED <<dbvars, currentRole, issued, incCalls>>

\* a reset that also grants a fresh allowance on top of the old limit
ResetRowExtend(table, userId) ==
  IF userId \in DOMAIN table
    THEN [table EXCEPT ![userId].api_calls_used = 0,
                       ![userId].api_calls_limit = @ + DefaultLimit]
    ELSE table

\* UPDATE user_api SET api_calls_used = 0 WHERE user_id = ?
ResetRow(table, userId) ==
  IF userId \in DOMAIN table
    THEN [table EXCEPT ![userId].api_calls_used = 0]
    ELSE table

\* Database.resetUserApiUsage (part_003 1067-1086), then getUserApiUsage
resetUserApiUsage(r) ==
  /\ req[r].pc = "reset_exec"
  /\ LET q == req[r]
     IN /\ user_api' = ResetRow(user_api, q.target)
        /\ req' = [req EXCEPT ![r] =
                     [q EXCEPT !.wrote = TRUE, !.phase = "reset",
                               !.message = "API usage reset successfully",
                               !.pc = "usage_select"]]
  /\ UNCHANGED <<user, api_usage_log, nextInsertId, currentRole, issued, incCalls>>

(***************************************************************************)
(* Specification of the account and admin routes, interleaved.             *)
(***************************************************************************)
NextAccounts ==
  \E r \in Slots :
    \/ StartSignup(r)
    \/ StartAddAdmin(r)
    \/ StartLogin(r)
    \/ StartDashboard(r)
    \/ StartDelete(r)
    \/ StartReset(r)
    \/ FindEmail(r)
    \/ InsertUserRow(r)
    \/ InsertUserQuota(r)
    \/ LoginFind(r)
    \/ updateLastLogin(r)
    \/ RequireAdminAuth(r)
    \/ switchToAdminRole(r)
    \/ getAllUsersWithApiUsage(r)
    \/ getEndpointStatistics(r)
    \/ DeleteLookup(r)
    \/ deleteUser(r)
    \/ ResetLookup(r)
    \/ resetUserApiUsage(r)
    \/ UsageSelect(r)
    \/ UsageInsert(r)
    \/ MwLog(r)

SpecAccounts == Init /\ [][NextAccounts]_vars

(***************************************************************************)
(* Claims about the account and admin routes.                              *)
(***************************************************************************)
\* a user or quota row went away, or a counter went down: what the delete and
\* reset operations do
AdminOperation ==
  \/ \E u \in DOMAIN user : u \notin DOMAIN user'
  \/ \E u \in DOMAIN user_api :
       u \in DOMAIN user_api' /\ user_api'[u].api_calls_used < user_api[u].api_calls_used

\* C6: on the admin-gated routes (dashboard, delete user, reset usage) the
\* handler runs only for a request whose token verifies and resolves to a user
\* row with is_admin true; a request without token, with a token that does not
\* verify, or whose token resolves to no admin ends in a redirect to
\* /admin/login with no handler run, and rows are deleted or counters reset
\* only by the handler of a request that passed the gate.
C6_State ==
  \A r \in Slots :
    LET q == req[r]
        t == TokenOf(q)
    IN q.kind \in AdminRoutes =>
         /\ q.handler =>
              /\ t.sig = "ok"
              /\ q.attached
              /\ q.user.is_admin
              /\ q.user.email = t.email
              /\ q.user.user_id \in DOMAIN user
              /\ user[q.user.user_id].is_admin
         /\ (t = NoToken \/ t.sig # "ok") =>
              /\ q.status = 302
              /\ q.location = "/admin/login"
              /\ q.pc = "done"
         /\ q.status = 302 => (~q.handler /\ ~q.wrote /\ ~q.attached)
         /\ q.wrote => q.handler

C6_Step ==
  /\ \A r \in Slots :
       (req[r].kind \in AdminRoutes /\ req[r].pc = "auth_admin" /\ req'[r] # req[r]) =>
         IF \E id \in DOMAIN user :
              user[id].email = TokenOf(req[r]).email /\ user[id].is_admin
           THEN req'[r].pc = "role_admin" /\ req'[r].status = 0
           ELSE /\ req'[r].status = 302
                /\ req'[r].location = "/admin/login"
                /\ req'[r].pc = "done"
  /\ AdminOperation =>
       \E r \in Slots :
         /\ req[r].kind \in {"delete", "reset"}
         /\ req[r].handler
         /\ req[r].user.is_admin
         /\ req'[r].wrote

C6_AdminGate == []C6_State /\ [][C6_Step]_vars

\* an admin's delete went through and a request with a signed token of a
\* non-admin user was redirected
C6_Witness ==
  /\ \E r \in Slots :
       /\ req[r].kind = "delete"
       /\ req[r].handler
       /\ req[r].wrote
       /\ req[r].status = 200
  /\ \E r \in Slots :
       /\ req[r].kind \in AdminRoutes
       /\ TokenOf(req[r]).sig = "ok"
       /\ TokenOf(req[r]).userId = AliceId
       /\ req[r].status = 302

\* C7: at the step in which POST /auth/signup answers 200 with a userId, a
\* user row with that id and the request's email exists and a user_api row for
\* that id exists with api_calls_used = 0 and api_calls_limit = 20.
C7_SignupCreatesQuota ==
  [][\A r \in Slots :
       (req[r].kind = "signup" /\ req[r].status = 0 /\ req'[r].status = 200) =>
         LET id == req'[r].respUserId
         IN /\ id # 0
            /\ id \in DOMAIN user'
            /\ user'[id].email = req[r].email
            /\ id \in DOMAIN user_api'
            /\ user_api'[id].api_calls_used = 0
            /\ user_api'[id].api_calls_limit = 20]_vars

C7_Witness ==
  \E r \in Slots :
    /\ req[r].kind = "signup"
    /\ req[r].status = 200
    /\ req[r].respUserId \in DOMAIN user
    /\ req[r].respUserId \in DOMAIN user_api
    /\ user_api[req[r].respUserId] = [api_calls_used |-> 0, api_calls_limit |-> 20]

\* the request's email is registered and its password is not the account's
WrongPassword(q) ==
  \E id \in DOMAIN user :
    user[id].email = q.email /\ user[id].password_hash.pw # q.password

\* C8: a POST /auth/login with a registered email and a wrong password is
\* answered 401 at its credential check, with no cookie set and no token
\* issued, and no step of it changes any user's api_calls_used.
C8_Step ==
  /\ \A r \in Slots :
       (req[r].kind = "login" /\ req[r].pc = "login_find" /\ req'[r] # req[r]
          /\ WrongPassword(req[r])) =>
         /\ req'[r].status = 401
         /\ req'[r].pc = "done"
         /\ req'[r].setCookie = NoToken
         /\ issued' = issued
         /\ user_api' = user_api
  /\ \A r \in Slots :
       (req[r].pc = "idle" /\ req'[r].kind = "login") =>
         (issued' = issued /\ user_api' = user_api)

C8_State ==
  \A r \in Slots :
    (req[r].kind = "login" /\ req[r].status = 401) =>
      (req[r].setCookie = NoToken /\ req[r].pc = "done" /\ ~req[r].wrote)

C8_WrongPassword == []C8_State /\ [][C8_Step]_vars

C8_Witness ==
  \E r \in Slots :
    /\ req[r].kind = "login"
    /\ req[r].email = "alice@x.com"
    /\ req[r].password = "bad"
    /\ AliceId \in DOMAIN user
    /\ req[r].status = 401
    /\ req[r].setCookie = NoToken

\* C9: a DELETE /admin/users/:id whose id is the requesting admin's own is
\* answered 400 CANNOT_DELETE_SELF by the handler, and the step in which the
\* handler runs leaves the user, user_api and api_usage_log tables unchanged.
C9_State ==
  \A r \in Slots :
    LET q == req[r]
    IN (q.kind = "delete" /\ q.handler /\ parseInt(q.param) = q.user.user_id) =>
         /\ q.status = 400
         /\ q.message = "CANNOT_DELETE_SELF"
         /\ ~q.wrote
         /\ q.pc \in {"mw_log", "done"}

C9_Step ==
  \A r \in Slots :
    (/\ req[r].kind = "delete"
     /\ req[r].pc = "role_admin"
     /\ parseInt(req[r].param) = req[r].user.user_id
     /\ req'[r] # req[r]) =>
      /\ req'[r].status = 400
      /\ req'[r].message = "CANNOT_DELETE_SELF"
      /\ UNCHANGED <<user, user_api, api_usage_log>>

C9_NoSelfDelete == []C9_State /\ [][C9_Step]_vars

C9_Witness ==
  \E r \in Slots :
    /\ req[r].kind = "delete"
    /\ req[r].handler
    /\ parseInt(req[r].param) = RootId
    /\ req[r].user.user_id = RootId
    /\ req[r].status = 400
    /\ req[r].message = "CANNOT_DELETE_SELF"
    /\ RootId \in DOMAIN user

\* C10: no step removes a user row whose is_admin is true or clears its flag;
\* a delete request whose target row is an admin's is answered 403 and writes
\* nothing, and every delete that wrote had found a non-admin target.
C10_State ==
  \A r \in Slots :
    LET q == req[r]
    IN q.kind = "delete" =>
         /\ (q.targetUser # NoUser /\ q.targetUser.is_admin) =>
              /\ q.status = 403
              /\ ~q.wrote
              /\ q.target \in DOMAIN user
         /\ q.wrote => (q.targetUser # NoUser /\ ~q.targetUser.is_admin)

C10_Step ==
  \A u \in DOMAIN user :
    user[u].is_admin => (u \in DOMAIN user' /\ user'[u].is_admin)

C10_AdminsNeverDeleted == []C10_State /\ [][C10_Step]_vars

\* one delete was refused for an admin target and another removed a non-admin
C10_Witness ==
  /\ \E r \in Slots :
       /\ req[r].kind = "delete"
       /\ req[r].targetUser.is_admin
       /\ req[r].status = 403
       /\ req[r].target \in DOMAIN user
  /\ \E r \in Slots :
       /\ req[r].kind = "delete"
       /\ req[r].wrote
       /\ req[r].status = 200
       /\ req[r].target \notin DOMAIN user

(***************************************************************************)
(* Specification of the whole server: every route of the user and admin    *)
(* routers, interleaved.                                                   *)
(***************************************************************************)
Next ==
  \E r \in Slots :
    \/ StartTts(r)
    \/ StartMe(r)
    \/ StartIncrement(r)
    \/ StartSignup(r)
    \/ StartAddAdmin(r)
    \/ StartLogin(r)
    \/ StartDashboard(r)
    \/ StartDelete(r)
    \/ StartReset(r)
    \/ AuthenticateRequest(r)
    \/ SwitchToUserRole(r)
    \/ UsageSelect(r)
    \/ UsageInsert(r)
    \/ Upstream(r)
    \/ IncSelect(r)
    \/ IncInsert(r)
    \/ IncUpdate(r)
    \/ LogUsage(r)
    \/ MwLog(r)
    \/ FindEmail(r)
    \/ InsertUserRow(r)
    \/ InsertUserQuota(r)
    \/ LoginFind(r)
    \/ updateLastLogin(r)
    \/ RequireAdminAuth(r)
    \/ switchToAdminRole(r)
    \/ getAllUsersWithApiUsage(r)
    \/ getEndpointStatistics(r)
    \/ DeleteLookup(r)
    \/ deleteUser(r)
    \/ ResetLookup(r)
    \/ resetUserApiUsage(r)

Spec == Init /\ [][Next]_vars

(***************************************************************************)
(* Specification of the TTS route alone: synthesize requests are the only  *)
(* source of increments.                                                   *)
(***************************************************************************)
\* the handler's checkApiLimit has created the row before incrementApiCalls
\* runs, so the INSERT branch of incrementApiCalls is never taken here
NextTts ==
  \E r \in Slots :
    \/ StartTts(r)
    \/ AuthenticateRequest(r)
    \/ SwitchToUserRole(r)
    \/ UsageSelect(r)
    \/ UsageInsert(r)
    \/ Upstream(r)
    \/ IncSelect(r)
    \/ IncUpdate(r)
    \/ LogUsage(r)
    \/ MwLog(r)

SpecTts == Init /\ [][NextTts]_vars

(***************************************************************************)
(* Claims about reset and the quota counter.                               *)
(***************************************************************************)
\* C11: a PATCH /admin/users/:id/reset-usage on an existing user that
\* answers 200 reports apiUsage.used = 0 and the user's limit.
C11_ResetReportsZero ==
  \A r \in Slots :
    (req[r].kind = "reset" /\ req[r].status = 200) =>
      (req[r].respUsage.used = 0 /\ req[r].respUsage.limit = DefaultLimit)

\* the request in slot r takes its reset step
ResetStep(r) ==
  /\ req[r].kind = "reset"
  /\ req[r].pc = "reset_exec"
  /\ req'[r] # req[r]

\* C12: resetUserApiUsage always succeeds and leaves the target's
\* api_calls_used at 0, and a second reset applied to the state it leaves
\* changes nothing: a reset of a user whose counter is already 0 leaves
\* user_api as it is; every reset request that found its target answers 200.
C12_Step ==
  \A r \in Slots :
    ResetStep(r) =>
      /\ req'[r].wrote
      /\ req'[r].pc = "usage_select"
      /\ req'[r].status = 0
      /\ req[r].target \in DOMAIN user_api =>
           /\ user_api'[req[r].target].api_calls_used = 0
           /\ user_api'[req[r].target].api_calls_limit =
                user_api[req[r].target].api_calls_limit
      /\ ResetRow(user_api', req[r].target) = user_api'
      /\ UsedOf(user_api, req[r].target) = 0 => user_api' = user_api

C12_State ==
  \A r \in Slots :
    (req[r].kind = "reset" /\ req[r].wrote /\ req[r].pc \in {"mw_log", "done"}) =>
      req[r].status = 200

C12_ResetIdempotent == []C12_State /\ [][C12_Step]_vars

\* two resets of the same user both answered 200 and the counter is 0
C12_Witness ==
  /\ \A r \in Slots :
       /\ req[r].kind = "reset"
       /\ req[r].target = AliceId
       /\ req[r].wrote
       /\ req[r].status = 200
       /\ req[r].respUsage.used = 0
  /\ AliceId \in DOMAIN user_api
  /\ user_api[AliceId].api_calls_used = 0

\* C13: api_calls_used of every user is >= 0 in every state, and from one
\* state to the next it does not decrease, except in the reset step of an
\* admin's reset request for that user, which leaves it at 0.
C13_State ==
  \A u \in DOMAIN user_api : user_api[u].api_calls_used >= 0

C13_Step ==
  \A u \in DOMAIN user_api \cap DOMAIN user_api' :
    \/ user_api'[u].api_calls_used >= user_api[u].api_calls_used
    \/ /\ user_api'[u].api_calls_used = 0
       /\ \E r \in Slots :
            ResetStep(r) /\ req[r].target = u /\ req[r].handler /\ req[r].user.is_admin

C13_Monotonic == []C13_State /\ [][C13_Step]_vars

\* a counter was raised by an increment and then set back by a reset
C13_Witness ==
  /\ \E r \in Slots : req[r].kind \in {"tts", "increment"} /\ req[r].incs > 0
                        /\ req[r].user.user_id = AliceId
  /\ \E r \in Slots : req[r].kind = "reset" /\ req[r].wrote /\ req[r].target = AliceId
                        /\ req[r].respUsage.used = 0 /\ req[r].status = 200
  /\ UsedOf(user_api, AliceId) = 0

(***************************************************************************)
(* Claims about the TTS handler's logging, upstream handling, validation   *)
(* and response.                                                           *)
(***************************************************************************)
\* C14: a usage-log write of a request is started only after the request's
\* response has been written.
C14_LogAfterResponse ==
  \A r \in Slots :
    req[r].pc \in {"log_usage", "mw_log"} => req[r].status # 0

\* C15: a TTS request answers 200 or increments only if the upstream answer
\* was 2xx with a body that parsed; an upstream answer whose body did not
\* parse ends as a failure with no increment.
C15_ParsedOnly ==
  \A r \in Slots :
    LET q == req[r]
    IN q.kind = "tts" =>
         /\ (q.status = 200 \/ q.incs > 0) => (q.aiOk /\ q.aiParsed)
         /\ (q.aiStatus # 0 /\ ~q.aiParsed) =>
              (q.incs = 0 /\ q.pc \notin {"inc_select", "inc_insert", "inc_update"})

\* a TTS request whose handler has taken its quota snapshot and whose body
\* has an empty text or an empty language
BadBody(q) ==
  /\ q.kind = "tts"
  /\ q.handler
  /\ q.apiUsage # NoUsage
  /\ (q.text = "" \/ q.language = "")

\* C16 as stated: such a request is answered 400 with the snapshot, whatever
\* the user's quota state.
C16_Always400 ==
  \A r \in Slots :
    BadBody(req[r]) => (req[r].status = 400 /\ req[r].respUsage = req[r].apiUsage)

\* C16 amended: such a request is answered 400 with the usage snapshot when
\* the snapshot has used < limit and 429 with the snapshot when used >= limit;
\* in both cases it is not forwarded upstream and performs no increment.
C16_Validation ==
  \A r \in Slots :
    LET q == req[r]
    IN BadBody(q) =>
         /\ q.status = IF q.apiUsage.used >= q.apiUsage.limit THEN 429 ELSE 400
         /\ q.respUsage = q.apiUsage
         /\ q.respUsage.remaining = Max(q.apiUsage.limit - q.apiUsage.used, 0)
         /\ ~q.forwarded
         /\ q.aiStatus = 0
         /\ q.incs = 0
         /\ q.pc \in {"mw_log", "done"}

C16_Witness ==
  /\ \E r \in Slots :
       /\ BadBody(req[r])
       /\ req[r].text = ""
       /\ req[r].status = 400
       /\ req[r].apiUsage.used < req[r].apiUsage.limit
       /\ UsedOf(user_api, req[r].user.user_id) = req[r].apiUsage.used
  /\ \E r \in Slots :
       /\ BadBody(req[r])
       /\ req[r].language = ""
       /\ req[r].status = 400

StoredUsage(id) ==
  UsageOf(IF id \in DOMAIN user_api THEN user_api[id] ELSE DefaultUsage)

\* a reset or delete aimed at the user has been executed
ResetOrDeleted(id) ==
  \E r \in Slots :
    req[r].kind \in {"reset", "delete"} /\ req[r].wrote /\ req[r].target = id

\* C17 amended: a 200 of the TTS handler carries the apiUsage read after
\* incrementApiCalls returned: used and limit are the stored values at that
\* read, remaining = max(limit - used, 0), and used includes this request's
\* increment unless a reset or delete of the user was executed meanwhile; the
\* response carries no apiLimitExceeded flag.
C17_State ==
  \A r \in Slots :
    LET q == req[r]
    IN (q.kind = "tts" /\ q.status = 200) =>
         /\ q.respExceeded = "absent"
         /\ q.respUsage.remaining = Max(q.respUsage.limit - q.respUsage.used, 0)
         /\ q.respUsage.used >= q.apiUsage.used + 1 \/ ResetOrDeleted(q.user.user_id)

C17_Step ==
  \A r \in Slots :
    (req[r].kind = "tts" /\ req[r].status = 0 /\ req'[r].status = 200) =>
      /\ req[r].phase = "refresh"
      /\ req'[r].respUsage = StoredUsage(req[r].user.user_id)

Emails ==
  {"john@john.com", "admin@admin.com", "alice@x.com", "root@x.com", "gone@x.com",
   "new@x.com"}

C19_SignupErrors ==
  \A r \in Slots :
    (req[r].kind = "signup" /\ req[r].status # 0) =>
      /\ req[r].message \in {"FIELDS_REQUIRED", "EMAIL_EXISTS", "Email already exists"} =>
           req[r].status = 400
      /\ req[r].message = "ERROR_DATABASE" => req[r].status = 500

\* C20: with synthesize requests as the only source of increments,
\* api_calls_used of a user never exceeds its api_calls_limit.
C20_NeverPastLimit ==
  \A u \in DOMAIN user_api :
    user_api[u].api_calls_used <= user_api[u].api_calls_limit

(***************************************************************************)
(* Claims about admin creation and the atomicity of insertUser.            *)
(***************************************************************************)
\* the request's token verifies and names the account of an existing admin
HoldsAdminToken(q) ==
  /\ verifyToken(TokenOf(q)) # NullDecoded
  /\ AdminAllowed(findUserByEmail(verifyToken(TokenOf(q)).email))

\* C21: a user row with is_admin true is inserted only for a request that
\* carries a valid token of an existing admin; a POST /admin/add-admin request
\* without one creates no user.
C21_AdminCreatedByAdmin ==
  \A r \in Slots :
    (req[r].kind = "addadmin" /\ ~HoldsAdminToken(req[r])) => req[r].insertId = 0

\* C22: once insertUser has returned for a signup or add-admin request, the
\* user row it inserted and the user_api row of that id exist together or
\* not at all; in particular a failed INSERT INTO user_api leaves no user
\* row without a user_api row behind.
C22_AllOrNothing ==
  \A r \in Slots :
    (req[r].kind \in {"signup", "addadmin"} /\ req[r].insertId # 0 /\ req[r].status # 0) =>
      (req[r].insertId \in DOMAIN user <=> req[r].insertId \in DOMAIN user_api)

(***************************************************************************)
(* Claims about the usage log and the increment of the TTS route.          *)
(***************************************************************************)
\* number of api_usage_log rows of a user
LogCount(u) ==
  BagCardinality([e \in {x \in DOMAIN api_usage_log : x.user_id = u} |->
                    api_usage_log[e]])

\* the synthesize requests of a user that were answered 200 after the
\* upstream answered with success
Succeeded(u) ==
  {r \in Slots : /\ req[r].kind = "tts"
                 /\ req[r].user.user_id = u
                 /\ req[r].aiOk
                 /\ req[r].status = 200}

\* C23: with synthesize requests only, once every request has run to its
\* end each user has exactly one api_usage_log row per request that was
\* answered 200 after upstream success, and none for a request that was
\* rejected, failed validation or got an upstream failure.
C23_OneLogPerSuccess ==
  (\A r \in Slots : req[r].pc \in {"idle", "done"}) =>
    \A u \in UserIds : LogCount(u) = Cardinality(Succeeded(u))

\* C24: every synthesize request answered 200 has performed exactly one
\* increment of its user's stored api_calls_used.
C24_SuccessIncrements ==
  \A r \in Slots :
    (req[r].kind = "tts" /\ req[r].status = 200) => req[r].incs = 1

(***************************************************************************)
(* Claims about the role of the shared connection.                         *)
(***************************************************************************)
\* the database statements a request issues once its middleware has set the
\* role, by the position the request is at
UserStatements ==
  {"usage_select", "usage_insert", "inc_select", "inc_insert", "inc_update",
   "log_usage", "mw_log"}

AdminStatements ==
  {"dash_users", "dash_stats", "del_lookup", "del_exec", "reset_lookup",
   "reset_exec", "usage_select", "usage_insert", "mw_log"}

\* C25: every database statement that a request behind requireUserAuth
\* issues after the middleware runs while currentRole is the user role, and
\* every statement of a request behind requireAdminAuth runs while
\* currentRole is the admin role.
C25_Step ==
  \A r \in Slots :
    req'[r] # req[r] =>
      /\ (req[r].kind \in UserAuthRoutes /\ req[r].pc \in UserStatements) =>
           currentRole = "user"
      /\ (req[r].kind \in AdminRoutes /\ req[r].pc \in AdminStatements) =>
           currentRole = "admin"

C25_RoleHeld == [][C25_Step]_vars

(***************************************************************************)
(* Specification of GET /auth/me alone: requests whose only database       *)
(* calls are getUserApiUsage (through checkApiLimit and directly).         *)
(***************************************************************************)
NextMe ==
  \E r \in Slots :
    \/ StartMe(r)
    \/ AuthenticateRequest(r)
    \/ SwitchToUserRole(r)
    \/ UsageSelect(r)
    \/ UsageInsert(r)
    \/ MwLog(r)

SpecMe == Init /\ [][NextMe]_vars

\* what a getUserApiUsage call of a /auth/me request handed to its caller:
\* the first call feeds checkApiLimit, the second the response
Returned(before, after) ==
  IF before.phase = "check" THEN after.apiUsage ELSE after.respUsage

\* C26: with concurrent getUserApiUsage calls for an existing user and no
\* other writer, a call that found no row leaves the user's user_api row in
\* place as (0 used, 20 limit), also when another call inserted it first;
\* every call returns, without a 500, the used and limit of the stored row;
\* no call changes a row that exists.
C26_Step ==
  \A r \in Slots :
    (req[r].kind = "me" /\ req[r].pc \in {"usage_select", "usage_insert"}
       /\ req'[r] # req[r]) =>
      LET id == req[r].user.user_id
      IN /\ id \in DOMAIN user
         /\ req'[r].status # 500
         /\ req[r].pc = "usage_insert" =>
              /\ id \in DOMAIN user_api'
              /\ user_api'[id] = [api_calls_used |-> 0, api_calls_limit |-> DefaultLimit]
              /\ Returned(req[r], req'[r]) = UsageOf(user_api'[id])
         /\ (req[r].pc = "usage_select" /\ id \in DOMAIN user_api) =>
              /\ user_api' = user_api
              /\ Returned(req[r], req'[r]) = UsageOf(user_api[id])
         /\ \A u \in DOMAIN user_api :
              u \in DOMAIN user_api' /\ user_api'[u] = user_api[u]

C26_LazyCreateIdempotent == [][C26_Step]_vars

\* two calls both found no row: one has inserted it and returned the
\* defaults, the other is about to run its INSERT against the existing row
C26_Witness ==
  \E r1, r2 \in Slots :
    /\ r1 # r2
    /\ req[r1].kind = "me" /\ req[r2].kind = "me"
    /\ req[r1].user.user_id = req[r2].user.user_id
    /\ req[r1].pc = "usage_insert"
    /\ req[r1].user.user_id \in DOMAIN user_api
    /\ req[r2].apiUsage = UsageOf(user_api[req[r2].user.user_id])
    /\ req[r2].apiUsage.used = 0

(***************************************************************************)
(* POST /admin/login (routes/admin.js 53-99) and handleLogin of the        *)
(* http server (server.js 171-241), which reads its own users table        *)
(* through Database/database.js.                                           *)
(***************************************************************************)
AdminLoginBodies ==
  {<<"root@x.com", "pw">>, <<"root@x.com", "bad">>, <<"root@x.com", "">>,
   <<"alice@x.com", "pw">>, <<"admin@admin.com", "111">>, <<"nobody@x.com", "pw">>}

StartAdminLogin(r) ==
  /\ CanStart(r)
  /\ \E b \in AdminLoginBodies :
       req' = [req EXCEPT ![r] =
                 BeginAccount([IdleReq EXCEPT !.kind = "adminlogin", !.email = b[1],
                                              !.password = b[2]], "admin_login_find")]
  /\ UNCHANGED <<dbvars, currentRole, issued, incCalls>>

\* findUserByEmail, the is_admin test, verifyPassword, generateToken
AdminLoginFind(r) ==
  /\ req[r].pc = "admin_login_find"
  /\ LET q == req[r]
         u == findUserByEmail(q.email)
         q2 == IF ~AdminAllowed(u) THEN RespondMsg(q, 401, "ERROR_AUTHENTICATION")
               ELSE IF ~verifyPassword(q.password, u.password_hash)
                 THEN RespondMsg(q, 401, "ERROR_AUTHENTICATION")
               ELSE RespondMsg([q EXCEPT !.user = u,
                                         !.setCookie = generateToken(u.user_id, u.email),
                                         !.respUserId = u.user_id],
                               200, "LOGIN_SUCCESS")
     IN /\ req' = [req EXCEPT ![r] = q2]
        /\ issued' = Delivered(q2)
  /\ UNCHANGED <<dbvars, currentRole, incCalls>>

\* the users table of the http server as its createUser left it
LegacyUsers ==
  [id \in {1} |-> [email |-> "alice@x.com", password |-> hashPassword("pw")]]

\* Database/database.js findUserByEmail, as a row of the shape the requests hold
LegacyFind(email) ==
  IF \E id \in DOMAIN LegacyUsers : LegacyUsers[id].email = email
    THEN LET id == CHOOSE i \in DOMAIN LegacyUsers : LegacyUsers[i].email = email
         IN [user_id |-> id, email |-> email,
             password_hash |-> LegacyUsers[id].password, is_admin |-> FALSE]
    ELSE NoUser

LegacyLoginBodies ==
  {<<"alice@x.com", "pw">>, <<"alice@x.com", "bad">>, <<"alice@x.com", "">>,
   <<"nobody@x.com", "pw">>, <<"", "pw">>}

\* handleLogin up to its first database await: if (!data.email) 400
StartLegacyLogin(r) ==
  /\ CanStart(r)
  /\ \E b \in LegacyLoginBodies :
       LET q == [IdleReq EXCEPT !.kind = "legacylogin", !.email = b[1],
                                !.password = b[2]]
       IN req' = [req EXCEPT ![r] =
                    IF q.email = ""
                      THEN RespondMsg(q, 400, "ERROR_INVALID_CREDENTIALS")
                      ELSE [q EXCEPT !.pc = "legacy_find"]]
  /\ UNCHANGED <<dbvars, currentRole, issued, incCalls>>

\* handleLogin from findUserByEmail on: bcrypt.compare runs only
\* if (data.password); then jwt.sign and the Set-Cookie header
handleLogin(r) ==
  /\ req[r].pc = "legacy_find"
  /\ LET q == req[r]
         u == LegacyFind(q.email)
     IN req' = [req EXCEPT ![r] =
                  IF u = NoUser THEN RespondMsg(q, 401, "ERROR_INVALID_CREDENTIALS")
                  ELSE IF q.password # "" /\ ~verifyPassword(q.password, u.password_hash)
                    THEN RespondMsg(q, 401, "ERROR_INVALID_CREDENTIALS")
                  ELSE RespondMsg([q EXCEPT !.user = u,
                                            !.setCookie = generateToken(u.user_id, u.email),
                                            !.respUserId = u.user_id],
                                  200, "SUCCESS_LOGIN")]
  /\ UNCHANGED <<dbvars, currentRole, issued, incCalls>>

(***************************************************************************)
(* Specification of the three login handlers, interleaved.                 *)
(***************************************************************************)
NextLogin ==
  \E r \in Slots :
    \/ StartLogin(r)
    \/ LoginFind(r)
    \/ updateLastLogin(r)
    \/ UsageSelect(r)
    \/ UsageInsert(r)
    \/ StartAdminLogin(r)
    \/ AdminLoginFind(r)
    \/ StartLegacyLogin(r)
    \/ handleLogin(r)

SpecLogin == Init /\ [][NextLogin]_vars

LoginKinds == {"login", "adminlogin", "legacylogin"}

\* C27: a login request is given a token only when it supplied a password
\* and that password verifies against the stored hash of the account with
\* the request's email.
C27_TokenNeedsPassword ==
  \A r \in Slots :
    (req[r].kind \in LoginKinds /\ req[r].setCookie # NoToken) =>
      /\ req[r].password # ""
      /\ req[r].user.email = req[r].email
      /\ verifyPassword(req[r].password, req[r].user.password_hash)

(***************************************************************************)
(* Claims about token extraction, deletion and deleted users' tokens.      *)
(***************************************************************************)
\* extractToken of the http server (server.js 51-61): the Authorization
\* header first, then the cookie
extractToken(cookie, bearer) == IF bearer # NoToken THEN bearer ELSE cookie

\* the routes that authenticate through authenticateRequest
TokenRoutes == UserAuthRoutes \cup {"increment"}

\* C28: a request that carries a bearer token is authenticated by that
\* token, whatever its cookie holds: past authentication its user is the one
\* the bearer token names, and it is refused only when the bearer token does
\* not verify or names no user.
C28_BearerFirst ==
  \A r \in Slots :
    (req[r].kind \in TokenRoutes /\ req[r].bearer # NoToken /\ req[r].pc # "auth_user") =>
      LET id == verifyToken(extractToken(req[r].cookie, req[r].bearer)).userId
      IN IF id \in DOMAIN user
           THEN req[r].user.user_id = id /\ req[r].status # 401
           ELSE req[r].status = 401

\* C29: every user_api row and every api_usage_log row references an
\* existing user, in every reachable state, also while requests of a deleted
\* user are still in flight; and the step that deletes a user leaves no
\* user_api row and no api_usage_log row of that user.
C29_State ==
  /\ DOMAIN user_api \subseteq DOMAIN user
  /\ \A e \in DOMAIN api_usage_log : e.user_id \in DOMAIN user

C29_Step ==
  \A r \in Slots :
    (req[r].pc = "del_exec" /\ req'[r] # req[r]) =>
      /\ req[r].target \notin DOMAIN user'
      /\ req[r].target \notin DOMAIN user_api'
      /\ \A e \in DOMAIN api_usage_log' : e.user_id # req[r].target

C29_NoOrphans == []C29_State /\ [][C29_Step]_vars

\* a synthesize request whose user was deleted while it was in flight ran its
\* increment, log and lazy quota creation against the missing user
C29_Witness ==
  \E r \in Slots :
    /\ req[r].kind = "tts"
    /\ req[r].status = 200
    /\ req[r].incs = 0
    /\ req[r].pc = "done"
    /\ req[r].user.user_id \notin DOMAIN user
    /\ \E d \in Slots : req[d].kind = "delete" /\ req[d].wrote
                        /\ req[d].target = req[r].user.user_id

\* C30: a request on a user-protected route or on /usage/increment whose
\* token names a user that has been deleted is answered 401 when
\* authenticateRequest looks the user up, and neither that step nor anything
\* after it touches the tables: the request never reaches its handler, makes
\* no increment and schedules no usage log.
C30_Step ==
  \A r \in Slots :
    (/\ req[r].kind \in TokenRoutes
     /\ req[r].pc = "auth_user"
     /\ req'[r] # req[r]
     /\ TokenOf(req[r]).userId \notin DOMAIN user) =>
      /\ req'[r].status = 401
      /\ req'[r].pc = "done"
      /\ UNCHANGED dbvars

C30_State ==
  \A r \in Slots :
    (req[r].kind \in TokenRoutes /\ req[r].user = NoUser /\ req[r].pc # "auth_user") =>
      /\ req[r].status = 401
      /\ req[r].pc = "done"
      /\ ~req[r].handler
      /\ ~req[r].attached
      /\ req[r].incs = 0

C30_DeletedUserRefused == []C30_State /\ [][C30_Step]_vars

\* an admin deleted alice in this run and a request started after the
\* delete request, carrying alice's signed token, was answered 401
C30_Witness ==
  \E d, r \in Slots :
    /\ d < r
    /\ req[d].kind = "delete" /\ req[d].wrote /\ req[d].target = AliceId
    /\ req[r].kind \in TokenRoutes
    /\ TokenOf(req[r]) = generateToken(AliceId, "alice@x.com")
    /\ req[r].status = 401

====
